---------------------------- MODULE Spec2Model ----------------------------
(***************************************************************************)
(* A model of rasa_whatsapp_connector/whatsapp.py: the class               *)
(* RasaToWhatsappConverter, which turns a bot reply into a WhatsApp Cloud  *)
(* API message and POSTs it, and turns a WhatsApp webhook body into a      *)
(* rasa message.                                                           *)
(*                                                                         *)
(* Python values.  A str is a TLA+ string (Len, SubSeq and \o act on it    *)
(* as on Python's str).  A dict the code builds from a literal is a TLA+   *)
(* record.  A value the code receives and inspects (the webhook body, the  *)
(* optional buttons argument) is a tagged record, so that a test of its    *)
(* kind ("is not None", a subscript on a non-dict) can be stated:          *)
(*   [t |-> "null"]               None / JSON null                         *)
(*   [t |-> "str",  v |-> "abc"]  a string                                 *)
(*   [t |-> "list", v |-> <<..>>] a list                                   *)
(*   [t |-> "dict", v |-> [k |-> ..]] a dict with string keys              *)
(***************************************************************************)
EXTENDS Integers, Sequences, FiniteSets, TLC

VARIABLES
    self,        \* the converter's fields, set by __init__
    prepared,    \* the last prepare_message call: its arguments and result
    calls,       \* the send_message calls made so far (their arguments)
    posts,       \* the HTTP POST requests issued so far, in order
    sent,        \* the last send_message call: the network's answer, the outcome
    hook,        \* the last get_message_from_whatsapp_hook call: data, outcome
    prev_hook    \* the call before it (kept by SpecHookPair only)

vars == <<self, prepared, calls, posts, sent, hook, prev_hook>>

(***************************************************************************)
(* Bounds of the model.                                                    *)
(***************************************************************************)
MaxButtons == 11

MaxCalls == 3

(***************************************************************************)
(* Python values and the operations the code applies to them.              *)
(***************************************************************************)
Null == [t |-> "null"]

S(s) == [t |-> "str", v |-> s]

L(s) == [t |-> "list", v |-> s]

D(f) == [t |-> "dict", v |-> f]

EmptyDict == D([k \in {} |-> Null])

Min(a, b) == IF a <= b THEN a ELSE b

\* s[0:n] of a str
Slice(s, n) == SubSeq(s, 1, Min(n, Len(s)))

\* xs[:n] of a list
Take(xs, n) == SubSeq(xs, 1, Min(n, Len(xs)))

(***************************************************************************)
(* The outbound path: prepare_message and the three shapes it builds.      *)
(* A button is a record [title |-> str, payload |-> str].                  *)
(***************************************************************************)
\* ReplyButton with the title left whole
ReplyButton_NoCut(button) ==
    [type |-> "reply", reply |-> [id |-> button.payload, title |-> button.title]]

\* the reply object of one button (the body of the loop, lines 35-47)
ReplyButton(button) ==
    [type |-> "reply",
     reply |-> [id |-> button.payload, title |-> Slice(button.title, 20)]]

_prepare_button_message(to, text, buttons) ==
    LET shown == Take(buttons, 3)
        whatsapp_buttons == [i \in 1..Len(shown) |-> ReplyButton(shown[i])]
    IN  [messaging_product |-> "whatsapp",
         to |-> to,
         type |-> "interactive",
         interactive |->
             [type |-> "button",
              body |-> [text |-> text],
              action |-> [buttons |-> whatsapp_buttons]]]

\* the row of one button (the body of the loop, lines 77-84)
ListRow(button) ==
    [id |-> button.payload, title |-> Slice(button.title, 24)]

\* _prepare_list_message with every button kept
_prepare_list_message_all(to, text, buttons, list_name) ==
    [messaging_product |-> "whatsapp",
     to |-> to,
     type |-> "interactive",
     interactive |->
         [type |-> "list",
          body |-> [text |-> text],
          action |->
              [button |-> list_name,
               sections |-> <<[title |-> list_name,
                               rows |-> [i \in 1..Len(buttons) |-> ListRow(buttons[i])]]>>]]]

_prepare_list_message(to, text, buttons, list_name) ==
    LET shown == Take(buttons, 10)
        whatsapp_list == [i \in 1..Len(shown) |-> ListRow(shown[i])]
    IN  [messaging_product |-> "whatsapp",
         to |-> to,
         type |-> "interactive",
         interactive |->
             [type |-> "list",
              body |-> [text |-> text],
              action |->
                  [button |-> list_name,
                   sections |-> <<[title |-> list_name, rows |-> whatsapp_list]>>]]]

_prepare_text_message(to, text) ==
    [messaging_product |-> "whatsapp", to |-> to, text |-> [body |-> text]]

\* prepare_message testing the truth of buttons ("if buttons:") instead
prepare_message_truthy(to, text, buttons) ==
    IF buttons.t # "null" /\ Len(buttons.v) > 0
    THEN IF Len(buttons.v) <= 3
         THEN _prepare_button_message(to, text, buttons.v)
         ELSE _prepare_list_message(to, text, buttons.v, "Select")
    ELSE _prepare_text_message(to, text)

\* buttons is Null (None) or L(<<button, ...>>); list_name keeps its default
prepare_message(to, text, buttons) ==
    IF buttons.t # "null"
    THEN IF Len(buttons.v) <= 3
         THEN _prepare_button_message(to, text, buttons.v)
         ELSE _prepare_list_message(to, text, buttons.v, "Select")
    ELSE _prepare_text_message(to, text)

(***************************************************************************)
(* The arguments the model calls prepare_message and send_message with.    *)
(***************************************************************************)
Alphabet == "ABCDEFGHIJKLMNOPQRSTUVWXYZabcdefghijklmnopqrstuvwxyz0123456789"

\* title lengths around the two limits, 20 and 24
TitleLens == <<0, 1, 19, 20, 21, 23, 24, 25, 30>>

\* payload lengths: short ones and ones longer than either title limit
PayloadLens == <<3, 30, 0, 21, 25>>

Pick(seq, k) == seq[(k % Len(seq)) + 1]

\* the i-th button of the list drawn with offset o: the titles of one list
\* differ in length and in content, and so do the payloads
ButtonAt(i, o) ==
    [title |-> SubSeq(Alphabet, i, i + Pick(TitleLens, i + o) - 1),
     payload |-> SubSeq(Alphabet, i + 5, i + 4 + Pick(PayloadLens, i + o))]

ButtonList(n, o) == [i \in 1..n |-> ButtonAt(i, o)]

ButtonArgs ==
    {Null} \cup {L(ButtonList(n, o)) : n \in 0..MaxButtons, o \in 0..(Len(TitleLens) - 1)}

Recipients == {"5491100000001", "15550002"}

Texts == {"", "Hi", "Please choose one of the options below"}

(***************************************************************************)
(* The state after construction, and the call of prepare_message.          *)
(***************************************************************************)
NoCall == [op |-> "none"]

PrepareMessage ==
    \E to \in Recipients, text \in Texts, buttons \in ButtonArgs :
        /\ prepared' = [op |-> "prepare_message",
                        to |-> to, text |-> text, buttons |-> buttons,
                        message |-> prepare_message(to, text, buttons)]
        /\ UNCHANGED <<self, calls, posts, sent, hook, prev_hook>>

(***************************************************************************)
(* The inbound path.  An evaluation either yields a value or raises: the   *)
(* subscripts, `in` and len() of lines 175-222 raise KeyError, IndexError  *)
(* or TypeError as Python does on the value they are applied to.           *)
(***************************************************************************)
Ok(v) == [kind |-> "ok", value |-> v]

\* an exception of class exc with argument arg, raised "from" cause
Raise(exc, arg, cause) == [kind |-> "raise", exc |-> exc, arg |-> arg, cause |-> cause]

\* a raised exception ends the evaluation of the statements that follow:
\* F is evaluated on r's value, unless r raised
Bind(r, F(_)) == IF r.kind = "raise" THEN r ELSE F(r.value)

\* whether key occurs in the str s as a substring
IsSubstring(key, s) ==
    \E i \in 1..(Len(s) - Len(key) + 1) : SubSeq(s, i, i + Len(key) - 1) = key

\* key in x
Contains(key, x) ==
    CASE x.t = "dict" -> Ok(key \in DOMAIN x.v)
      [] x.t = "list" -> Ok(\E i \in 1..Len(x.v) : x.v[i].t = "str" /\ x.v[i].v = key)
      [] x.t = "str"  -> Ok(IsSubstring(key, x.v))
      [] OTHER        -> Raise("TypeError", "not iterable", "None")

\* len(x)
PyLen(x) ==
    CASE x.t = "dict" -> Ok(Cardinality(DOMAIN x.v))
      [] x.t = "list" -> Ok(Len(x.v))
      [] x.t = "str"  -> Ok(Len(x.v))
      [] OTHER        -> Raise("TypeError", "no len()", "None")

\* x[key] for a str key
GetItem(x, key) ==
    CASE x.t = "dict" -> IF key \in DOMAIN x.v
                         THEN Ok(x.v[key])
                         ELSE Raise("KeyError", key, "None")
      [] OTHER        -> Raise("TypeError", "not subscriptable by str", "None")

\* x[-1] in place of x[0]
GetLast(x) ==
    CASE x.t = "list" -> IF Len(x.v) > 0
                         THEN Ok(x.v[Len(x.v)])
                         ELSE Raise("IndexError", "list index out of range", "None")
      [] x.t = "str"  -> IF Len(x.v) > 0
                         THEN Ok(S(SubSeq(x.v, Len(x.v), Len(x.v))))
                         ELSE Raise("IndexError", "string index out of range", "None")
      [] x.t = "dict" -> Raise("KeyError", "-1", "None")
      [] OTHER        -> Raise("TypeError", "not subscriptable", "None")

\* x[0]: a dict decoded from JSON has only str keys, so 0 is never one
GetFirst(x) ==
    CASE x.t = "list" -> IF Len(x.v) > 0
                         THEN Ok(x.v[1])
                         ELSE Raise("IndexError", "list index out of range", "None")
      [] x.t = "str"  -> IF Len(x.v) > 0
                         THEN Ok(S(SubSeq(x.v, 1, 1)))
                         ELSE Raise("IndexError", "string index out of range", "None")
      [] x.t = "dict" -> Raise("KeyError", "0", "None")
      [] OTHER        -> Raise("TypeError", "not subscriptable", "None")

\* x == s for a str literal s
PyEq(x, s) == x.t = "str" /\ x.v = s

\* x[key], which must hold something non-empty: the test
\* `key not in x or len(x[key]) == 0` and the ValueError it guards
RequireNonEmpty(x, key, message) ==
    Bind(Contains(key, x), LAMBDA present :
        IF ~present
        THEN Raise("ValueError", message, "None")
        ELSE Bind(GetItem(x, key), LAMBDA held :
                 Bind(PyLen(held), LAMBDA n :
                     IF n = 0
                     THEN Raise("ValueError", message, "None")
                     ELSE Ok(held))))

_get_value(data) ==
    Bind(RequireNonEmpty(data, "entry", "Provided data is invalid!"), LAMBDA entries :
        Bind(GetFirst(entries), LAMBDA entry :
            Bind(RequireNonEmpty(entry, "changes", "Provided data is invalid!"), LAMBDA changes :
                Bind(GetFirst(changes), LAMBDA change :
                    Bind(Contains("value", change), LAMBDA present :
                        IF ~present
                        THEN Raise("ValueError", "Provided data is invalid!", "None")
                        ELSE GetItem(change, "value"))))))

\* message['interactive']['type'] == kind (lines 215 and 220)
InteractiveIs(message, kind) ==
    Bind(GetItem(message, "interactive"), LAMBDA interactive :
        Bind(GetItem(interactive, "type"), LAMBDA type : Ok(PyEq(type, kind))))

\* ReplyId reading button_reply whatever the kind
ReplyId_Button(message, kind) ==
    Bind(GetItem(message, "interactive"), LAMBDA interactive :
        Bind(GetItem(interactive, "button_reply"), LAMBDA reply : GetItem(reply, "id")))

\* message['interactive'][kind]['id'] (lines 217 and 222)
ReplyId(message, kind) ==
    Bind(GetItem(message, "interactive"), LAMBDA interactive :
        Bind(GetItem(interactive, kind), LAMBDA reply : GetItem(reply, "id")))

\* the second elif, line 218-222; text stays None when it does not apply
ListReplyText(message) ==
    Bind(GetItem(message, "type"), LAMBDA type :
        IF ~PyEq(type, "interactive")
        THEN Ok(Null)
        ELSE Bind(InteractiveIs(message, "list_reply"), LAMBDA isList :
                 IF isList THEN ReplyId(message, "list_reply") ELSE Ok(Null)))

\* the first elif, lines 213-217, and what follows it
ButtonReplyText(message) ==
    Bind(GetItem(message, "type"), LAMBDA type :
        IF ~PyEq(type, "interactive")
        THEN ListReplyText(message)
        ELSE Bind(InteractiveIs(message, "button_reply"), LAMBDA isButton :
                 IF isButton
                 THEN ReplyId(message, "button_reply")
                 ELSE ListReplyText(message)))

\* the body of the try, lines 208-222: [sender_id, text]
TryBody(message) ==
    Bind(GetItem(message, "from"), LAMBDA sender_id :
        Bind(GetItem(message, "type"), LAMBDA type :
            Bind(IF PyEq(type, "text")
                 THEN Bind(GetItem(message, "text"), LAMBDA text : GetItem(text, "body"))
                 ELSE ButtonReplyText(message),
                 LAMBDA text : Ok([sender_id |-> sender_id, text |-> text]))))

\* the except clause raising with the description of line 203
ExceptKeyError_OtherText(r) ==
    IF r.kind = "raise" /\ r.exc = "KeyError"
    THEN Raise("ValueError", "Provided value is invalid", "KeyError")
    ELSE r

\* the try without its except clause
ExceptKeyError_Uncaught(r) == r

\* except KeyError as exc: raise ValueError(...) from exc  (lines 223-224)
ExceptKeyError(r) ==
    IF r.kind = "raise" /\ r.exc = "KeyError"
    THEN Raise("ValueError", "Provided data is invalid!", "KeyError")
    ELSE r

get_message_from_whatsapp_hook(data) ==
    Bind(_get_value(data), LAMBDA value :
        Bind(RequireNonEmpty(value, "messages", "Provided value is invalid"), LAMBDA messages :
            Bind(GetFirst(messages), LAMBDA message :
                Bind(ExceptKeyError(TryBody(message)), LAMBDA got :
                    IF got.text = Null
                    THEN Raise("ValueError", "Provided data is invalid!", "None")
                    ELSE Ok([sender_id |-> got.sender_id,
                             text |-> got.text,
                             metadata |-> EmptyDict])))))

(***************************************************************************)
(* The webhook bodies the model calls the hook with.  A body is a dict,    *)
(* as the docstring asks: the JSON WhatsApp posts, entry[0].changes[0].    *)
(* value.messages[0], or one with a part missing, empty or of another      *)
(* kind.                                                                   *)
(***************************************************************************)
Without(d, k) == D([x \in (DOMAIN d.v) \ {k} |-> d.v[x]])

With(d, k, val) == D([x \in (DOMAIN d.v) \cup {k} |-> IF x = k THEN val ELSE d.v[x]])

TextMessage(from, body) ==
    D([from |-> S(from), id |-> S("wamid.1"), type |-> S("text"),
       text |-> D([body |-> S(body)])])

ReplyMessage(from, kind, id) ==
    D([from |-> S(from), id |-> S("wamid.2"), type |-> S("interactive"),
       interactive |-> With(D([type |-> S(kind)]), kind,
                            D([id |-> S(id), title |-> S("Option")]))])

Senders == {"123", "5491100000001"}

WellFormedMessages ==
    {TextMessage(f, b) : f \in Senders, b \in {"hi", ""}}
    \cup {ReplyMessage(f, "button_reply", "OPT_A") : f \in Senders}
    \cup {ReplyMessage(f, "list_reply", "OPT_B") : f \in Senders}

BaseMessages ==
    {TextMessage("123", "hi"),
     ReplyMessage("123", "button_reply", "OPT_A"),
     ReplyMessage("123", "list_reply", "OPT_B")}

\* what the "interactive" key may hold instead of a well-formed reply
OddInteractives ==
    {EmptyDict, Null, S("button_reply"), L(<<>>),
     D([type |-> S("button_reply")]),
     D([type |-> S("list_reply")]),
     D([type |-> S("nfm_reply"), nfm_reply |-> D([id |-> S("OPT_C")])]),
     D([type |-> Null, button_reply |-> D([id |-> S("OPT_A")])]),
     D([button_reply |-> D([id |-> S("OPT_A")])]),
     D([type |-> S("button_reply"), button_reply |-> EmptyDict]),
     D([type |-> S("list_reply"), list_reply |-> EmptyDict]),
     D([type |-> S("button_reply"), list_reply |-> D([id |-> S("OPT_B")])]),
     D([type |-> S("list_reply"), button_reply |-> D([id |-> S("OPT_A")])]),
     D([type |-> S("button_reply"), button_reply |-> D([id |-> Null])]),
     D([type |-> S("list_reply"), list_reply |-> Null]),
     D([type |-> S("button_reply"), button_reply |-> S("OPT_A")])}

OddTexts == {EmptyDict, Null, S("hi"), L(<<>>), D([body |-> Null]), D([preview_url |-> S("u")])}

OddTypes == {S("image"), S("reaction"), Null, S("text"), S("interactive"), S(""), L(<<>>)}

MalformedMessages ==
    {Without(m, k) : m \in BaseMessages, k \in {"from", "type", "text", "interactive"}}
    \cup {With(m, "type", t) : m \in BaseMessages, t \in OddTypes}
    \cup {With(TextMessage("123", "hi"), "text", t) : t \in OddTexts}
    \cup {With(ReplyMessage("123", "button_reply", "OPT_A"), "interactive", i) :
              i \in OddInteractives}
    \cup {S("hello"), Null, L(<<>>), EmptyDict, L(<<S("from")>>)}

Messages == WellFormedMessages \cup MalformedMessages

Value(messages) == D([messaging_product |-> S("whatsapp"), messages |-> messages])

Change(value) == D([field |-> S("messages"), value |-> value])

Entry(changes) == D([id |-> S("1055"), changes |-> changes])

Data(entries) == D([object |-> S("whatsapp_business_account"), entry |-> entries])

OtherMessage == TextMessage("999", "other")

OtherChange == Change(Value(L(<<OtherMessage>>)))

OtherEntry == Entry(L(<<OtherChange>>))

\* a body whose first message is m, followed by more messages, changes, entries
Payload(m, moreMessages, moreChanges, moreEntries) ==
    Data(L(<<Entry(L(<<Change(Value(L(<<m>> \o moreMessages)))>> \o moreChanges))>>
           \o moreEntries))

\* what may follow the first element of the three arrays
Tails ==
    {<< <<>>, <<>>, <<>> >>,
     << <<OtherMessage>>, <<>>, <<>> >>,
     << <<Null>>, <<>>, <<>> >>,
     << <<>>, <<OtherChange>>, <<>> >>,
     << <<>>, <<EmptyDict>>, <<>> >>,
     << <<>>, <<>>, <<OtherEntry>> >>,
     << <<>>, <<>>, <<Null>> >>,
     << <<OtherMessage, Null>>, <<OtherChange>>, <<OtherEntry, OtherEntry>> >>}

\* bodies in which the path to the first message is broken: a segment is
\* missing, empty, or not the kind of value the path needs
BrokenPaths(mm, mc, me) ==
    LET ms == L(<<TextMessage("123", "hi")>> \o mm)
        v == Value(ms)
        cs == L(<<Change(v)>> \o mc)
        es == L(<<Entry(cs)>> \o me)
    IN  {Without(Data(es), "entry"), EmptyDict,
         Data(L(<<>>)), Data(Null), Data(EmptyDict), Data(D([a |-> Null])),
         Data(S("")), Data(S("x")),
         Data(L(<<Without(Entry(cs), "changes")>> \o me)),
         Data(L(<<Null>> \o me)), Data(L(<<EmptyDict>> \o me)),
         Data(L(<<L(<<>>)>> \o me)), Data(L(<<S("changes")>> \o me)),
         Data(L(<<Entry(L(<<>>))>> \o me)), Data(L(<<Entry(Null)>> \o me)),
         Data(L(<<Entry(D([a |-> Null]))>> \o me)),
         Data(L(<<Entry(L(<<Without(Change(v), "value")>> \o mc))>>)),
         Data(L(<<Entry(L(<<Null>> \o mc))>>)),
         Data(L(<<Entry(L(<<L(<<S("value")>>)>> \o mc))>>)),
         Data(L(<<Entry(L(<<Change(Null)>>))>>)),
         Data(L(<<Entry(L(<<Change(L(<<>>))>>))>>)),
         Data(L(<<Entry(L(<<Change(EmptyDict)>>))>>)),
         Data(L(<<Entry(L(<<Change(S("messages"))>>))>>)),
         Data(L(<<Entry(L(<<Change(L(<<S("messages")>>))>>))>>)),
         Data(L(<<Entry(L(<<Change(Without(v, "messages"))>> \o mc))>>)),
         Data(L(<<Entry(L(<<Change(Value(L(<<>>)))>> \o mc))>>)),
         Data(L(<<Entry(L(<<Change(Value(Null))>>))>>)),
         Data(L(<<Entry(L(<<Change(Value(EmptyDict))>>))>>)),
         Data(L(<<Entry(L(<<Change(Value(D([a |-> Null])))>>))>>)),
         Data(L(<<Entry(L(<<Change(Value(S("")))>>))>>)),
         Data(L(<<Entry(L(<<Change(Value(S("m")))>>))>>))}

Payloads ==
    {Payload(m, <<>>, <<>>, <<>>) : m \in Messages}
    \cup {Payload(m, t[1], t[2], t[3]) : m \in BaseMessages, t \in Tails}
    \cup BrokenPaths(<<>>, <<>>, <<>>)
    \cup BrokenPaths(<<OtherMessage>>, <<OtherChange>>, <<OtherEntry>>)

\* the bodies of SpecHookPair: few first messages, every tail
PairMessages ==
    {TextMessage("123", "hi"), ReplyMessage("123", "list_reply", "OPT_B"),
     Without(TextMessage("123", "hi"), "from"),
     With(TextMessage("123", "hi"), "type", S("image")),
     S("hello")}

PairPayloads ==
    {Payload(m, t[1], t[2], t[3]) : m \in PairMessages, t \in Tails}
    \cup BrokenPaths(<<>>, <<>>, <<>>)
    \cup BrokenPaths(<<OtherMessage>>, <<OtherChange>>, <<OtherEntry>>)

(***************************************************************************)
(* The calls of get_message_from_whatsapp_hook.                            *)
(***************************************************************************)
HookRecord(data) ==
    [op |-> "get_message_from_whatsapp_hook",
     data |-> data,
     outcome |-> get_message_from_whatsapp_hook(data)]

ReceiveHook ==
    \E data \in Payloads :
        /\ hook' = HookRecord(data)
        /\ UNCHANGED <<self, prepared, calls, posts, sent, prev_hook>>

\* the same call, the one before it remembered
ReceiveNextHook ==
    \E data \in PairPayloads :
        /\ hook' = HookRecord(data)
        /\ prev_hook' = hook
        /\ UNCHANGED <<self, prepared, calls, posts, sent>>

(***************************************************************************)
(* The converter's fields, and send_message.  The HTTP client (requests)   *)
(* is outside the repository: the network's answer to a POST is an input   *)
(* of the call, either an exception requests.post raises or a response     *)
(* with a status code and a body.                                          *)
(***************************************************************************)
DEFAULT_WHATSAPP_API_TIMEOUT == 10

__init__(phone_identifier, token, graphql_api_version, api_timeout) ==
    [_phone_identifier |-> phone_identifier,
     _token |-> token,
     _graphql_api_version |-> graphql_api_version,
     _api_timeout |-> api_timeout]

\* the constructor calls of the model: the defaults, and every field given
Converters ==
    {__init__("1055", "EAAtokenA", "v18.0", DEFAULT_WHATSAPP_API_TIMEOUT),
     __init__("/2077", "EAAtokenB", "v19.0", 5)}

Whitespace == {" ", "\n", "\t", "\r"}

RECURSIVE LStrip(_)
LStrip(s) ==
    IF Len(s) > 0 /\ SubSeq(s, 1, 1) \in Whitespace
    THEN LStrip(SubSeq(s, 2, Len(s)))
    ELSE s

RECURSIVE RStrip(_)
RStrip(s) ==
    IF Len(s) > 0 /\ SubSeq(s, Len(s), Len(s)) \in Whitespace
    THEN RStrip(SubSeq(s, 1, Len(s) - 1))
    ELSE s

\* str.strip()
Strip(s) == RStrip(LStrip(s))

\* the f-string of lines 158-160, stripped
Url(me) ==
    Strip("\n            https://graph.facebook.com/"
          \o me._graphql_api_version \o me._phone_identifier
          \o "/messages\n        ")

\* the arguments of requests.post, lines 165-170
PostRequest(me, message) ==
    [method |-> "POST",
     url |-> Url(me),
     headers |-> [Authorization |-> "Bearer " \o me._token],
     json |-> message,
     timeout |-> me._api_timeout]

BodyAccepted == "{\"messages\": [{\"id\": \"wamid.9\"}]}"

BodyError == "{\"error\": {\"message\": \"Invalid OAuth access token\"}}"

\* response.json(): the body parsed, or the decode error of a body that is
\* not JSON (an HTML error page, an empty body)
ResponseJson(response) ==
    CASE response.text = BodyAccepted ->
             Ok(D([messages |-> L(<<D([id |-> S("wamid.9")])>>)]))
      [] response.text = BodyError ->
             Ok(D([error |-> D([message |-> S("Invalid OAuth access token")])]))
      [] OTHER -> Raise("JSONDecodeError", "Expecting value", "None")

\* what the network answers to one POST
NetAnswers ==
    {[kind |-> "raise", exc |-> e] : e \in {"ConnectTimeout", "ReadTimeout", "ConnectionError"}}
    \cup {[kind |-> "response", status_code |-> c, text |-> b] :
              c \in {200, 201, 400, 401, 429, 500},
              b \in {BodyAccepted, BodyError, "<html>502 Bad Gateway</html>", ""}}

\* send_message with response.raise_for_status() before response.json()
send_message_raise_for_status(me, to, text, buttons, net) ==
    LET message == prepare_message(to, text, buttons)
    IN  [requests |-> <<PostRequest(me, message)>>,
         outcome |-> IF net.kind = "raise"
                     THEN Raise(net.exc, "", "None")
                     ELSE IF net.status_code >= 400
                          THEN Raise("HTTPError", "", "None")
                          ELSE ResponseJson(net)]

\* send_message posting once more after a failed POST
send_message_retry(me, to, text, buttons, net) ==
    LET message == prepare_message(to, text, buttons)
    IN  [requests |-> IF net.kind = "raise"
                      THEN <<PostRequest(me, message), PostRequest(me, message)>>
                      ELSE <<PostRequest(me, message)>>,
         outcome |-> IF net.kind = "raise"
                     THEN Raise(net.exc, "", "None")
                     ELSE ResponseJson(net)]

\* the requests the call issues and how it ends; net answers the POST
send_message(me, to, text, buttons, net) ==
    LET message == prepare_message(to, text, buttons)
    IN  [requests |-> <<PostRequest(me, message)>>,
         outcome |-> IF net.kind = "raise"
                     THEN Raise(net.exc, "", "None")
                     ELSE ResponseJson(net)]

SendButtonArgs == {Null, L(ButtonList(0, 0)), L(ButtonList(2, 3)), L(ButtonList(4, 3))}

SendMessage ==
    /\ Len(calls) < MaxCalls
    /\ \E to \in {"5491100000001"}, text \in {"Hi"}, buttons \in SendButtonArgs,
          net \in NetAnswers :
          LET r == send_message(self, to, text, buttons, net)
          IN  /\ calls' = Append(calls, [to |-> to, text |-> text, buttons |-> buttons])
              /\ posts' = posts \o r.requests
              /\ sent' = [op |-> "send_message", net |-> net, outcome |-> r.outcome]
    /\ UNCHANGED <<self, prepared, hook, prev_hook>>

(***************************************************************************)
(* The specifications.  The three operations share no state, so each     *)
(* also has a specification of its own.                                    *)
(***************************************************************************)
Init ==
    /\ self \in Converters
    /\ prepared = NoCall
    /\ calls = <<>>
    /\ posts = <<>>
    /\ sent = NoCall
    /\ hook = NoCall
    /\ prev_hook = NoCall

Next == PrepareMessage \/ SendMessage \/ ReceiveHook \/ ReceiveNextHook

Spec == Init /\ [][Next]_vars

SpecPrepare == Init /\ [][PrepareMessage]_vars

SpecSend == Init /\ [][SendMessage]_vars

SpecHook == Init /\ [][ReceiveHook]_vars

SpecHookPair == Init /\ [][ReceiveNextHook]_vars

(***************************************************************************)
(* Properties of prepare_message.                                          *)
(***************************************************************************)
\* t is the first n characters of s (all of s when s is shorter): t has
\* that length and s is t followed by the rest of s
IsFirstChars(t, s, n) ==
    /\ Len(t) = (IF Len(s) <= n THEN Len(s) ELSE n)
    /\ t \o SubSeq(s, Len(t) + 1, Len(s)) = s

Prepared == prepared.op = "prepare_message"

IsInteractive(m, kind) ==
    /\ DOMAIN m = {"messaging_product", "to", "type", "interactive"}
    /\ m.messaging_product = "whatsapp"
    /\ m.type = "interactive"
    /\ m.interactive.type = kind

\* C1: prepare_message chooses the shape by whether buttons is given, then
\* by its length: None gives the plain-text shape with body = text; a list
\* of 0..3 buttons, the empty list included, gives the interactive "button"
\* shape; a list of more than 3 gives the interactive "list" shape.
C1_ShapeSelection ==
    Prepared =>
        LET b == prepared.buttons
            m == prepared.message
        IN  /\ b.t = "null" =>
                   m = [messaging_product |-> "whatsapp",
                        to |-> prepared.to,
                        text |-> [body |-> prepared.text]]
            /\ (b.t = "list" /\ Len(b.v) <= 3) =>
                   IsInteractive(m, "button") /\ m.to = prepared.to
            /\ (b.t = "list" /\ Len(b.v) > 3) =>
                   IsInteractive(m, "list") /\ m.to = prepared.to

\* the empty list was given and the button shape came back
C1_Witness ==
    /\ Prepared
    /\ prepared.buttons = L(<<>>)
    /\ prepared.message.interactive.type = "button"
    /\ Len(prepared.text) > 24

\* C2: for 0..3 buttons the message has one reply object per button, in
\* order, with id = payload (whole) and title = the first 20 characters of
\* the button's title, and interactive.body.text = text.
C2_ButtonMessage ==
    (Prepared /\ prepared.buttons.t = "list" /\ Len(prepared.buttons.v) <= 3) =>
        LET bs == prepared.buttons.v
            out == prepared.message.interactive.action.buttons
        IN  /\ prepared.message.interactive.type = "button"
            /\ prepared.message.interactive.body.text = prepared.text
            /\ Len(out) = Len(bs)
            /\ \A i \in 1..Len(bs) :
                   /\ DOMAIN out[i] = {"type", "reply"}
                   /\ out[i].type = "reply"
                   /\ DOMAIN out[i].reply = {"id", "title"}
                   /\ out[i].reply.id = bs[i].payload
                   /\ IsFirstChars(out[i].reply.title, bs[i].title, 20)
                   /\ Len(out[i].reply.title) <= 20
                   /\ Len(out[i].reply.id) = Len(bs[i].payload)

\* three buttons, one with a title that was cut and one with a payload
\* longer than 20 that was not
C2_Witness ==
    /\ Prepared
    /\ prepared.buttons.t = "list"
    /\ Len(prepared.buttons.v) = 3
    /\ Len(prepared.message.interactive.action.buttons) = 3
    /\ \E i \in 1..3 :
           /\ Len(prepared.buttons.v[i].title) > 20
           /\ Len(prepared.message.interactive.action.buttons[i].reply.title) = 20
    /\ \E i \in 1..3 : Len(prepared.message.interactive.action.buttons[i].reply.id) > 20

\* C3: for more than 3 buttons the message has exactly one section, whose
\* rows are the first min(len, 10) buttons in order, each with id = payload
\* and title = the first 24 characters of the title; the section's title
\* and interactive.action.button are both "Select".
C3_ListMessage ==
    (Prepared /\ prepared.buttons.t = "list" /\ Len(prepared.buttons.v) > 3) =>
        LET bs == prepared.buttons.v
            action == prepared.message.interactive.action
            kept == IF Len(bs) <= 10 THEN Len(bs) ELSE 10
        IN  /\ prepared.message.interactive.type = "list"
            /\ prepared.message.interactive.body.text = prepared.text
            /\ action.button = "Select"
            /\ Len(action.sections) = 1
            /\ action.sections[1].title = "Select"
            /\ Len(action.sections[1].rows) = kept
            /\ \A i \in 1..kept :
                   LET row == action.sections[1].rows[i]
                   IN  /\ DOMAIN row = {"id", "title"}
                       /\ row.id = bs[i].payload
                       /\ IsFirstChars(row.title, bs[i].title, 24)

\* more than ten buttons were given, ten rows came back, a title was cut
C3_Witness ==
    /\ Prepared
    /\ prepared.buttons.t = "list"
    /\ Len(prepared.buttons.v) > 10
    /\ Len(prepared.message.interactive.action.sections[1].rows) = 10
    /\ \E i \in 1..10 :
           /\ Len(prepared.buttons.v[i].title) > 24
           /\ Len(prepared.message.interactive.action.sections[1].rows[i].title) = 24

(***************************************************************************)
(* Properties of get_message_from_whatsapp_hook.  The predicates below     *)
(* read the body itself, not the outcome of the call.                      *)
(***************************************************************************)
HookCalled == hook.op = "get_message_from_whatsapp_hook"

IsDict(x) == x.t = "dict"

IsList(x) == x.t = "list"

IsStr(x) == x.t = "str"

Has(d, k) == k \in DOMAIN d.v

HoldsStr(d, k) == IsDict(d) /\ Has(d, k) /\ IsStr(d.v[k])

IsInvalidData(outcome, description) ==
    outcome.kind = "raise" /\ outcome.exc = "ValueError" /\ outcome.arg = description

IsValidationError(outcome) == outcome.kind = "raise" /\ outcome.exc = "ValueError"

\* a reply of the given kind lacks a key the extraction reads
ReplyLacksKey(i, kind) ==
    /\ PyEq(i.v.type, kind)
    /\ \/ ~Has(i, kind)
       \/ IsDict(i.v[kind]) /\ ~Has(i.v[kind], "id")

\* the message m, a dict, lacks a key that the extraction reads on it
LacksReadKey(m) ==
    \/ ~Has(m, "from")
    \/ ~Has(m, "type")
    \/ /\ PyEq(m.v.type, "text")
       /\ \/ ~Has(m, "text")
          \/ IsDict(m.v.text) /\ ~Has(m.v.text, "body")
    \/ /\ PyEq(m.v.type, "interactive")
       /\ \/ ~Has(m, "interactive")
          \/ /\ IsDict(m.v.interactive)
             /\ \/ ~Has(m.v.interactive, "type")
                \/ ReplyLacksKey(m.v.interactive, "button_reply")
                \/ ReplyLacksKey(m.v.interactive, "list_reply")

\* the message m, a dict with its keys, is of a type, or an interactive
\* type, for which no text is extracted
IsUnknownShape(m) ==
    /\ Has(m, "from") /\ Has(m, "type")
    /\ \/ ~PyEq(m.v.type, "text") /\ ~PyEq(m.v.type, "interactive")
       \/ /\ PyEq(m.v.type, "interactive")
          /\ Has(m, "interactive") /\ IsDict(m.v.interactive)
          /\ Has(m.v.interactive, "type")
          /\ ~PyEq(m.v.interactive.v.type, "button_reply")
          /\ ~PyEq(m.v.interactive.v.type, "list_reply")

\* the message m holds a sender, a type, and the text of that type
IsWellFormedMessage(m) ==
    /\ HoldsStr(m, "from") /\ HoldsStr(m, "type")
    /\ \/ PyEq(m.v.type, "text") /\ Has(m, "text") /\ HoldsStr(m.v.text, "body")
       \/ /\ PyEq(m.v.type, "interactive") /\ Has(m, "interactive")
          /\ HoldsStr(m.v.interactive, "type")
          /\ \E kind \in {"button_reply", "list_reply"} :
                 /\ PyEq(m.v.interactive.v.type, kind)
                 /\ Has(m.v.interactive, kind)
                 /\ HoldsStr(m.v.interactive.v[kind], "id")

\* the text of a well-formed message m
TextOf(m) ==
    IF PyEq(m.v.type, "text")
    THEN m.v.text.v.body
    ELSE m.v.interactive.v[m.v.interactive.v.type.v].v.id

\* where the body stops being what the path entry[0].changes[0].value.
\* messages[0] needs: the segment that is missing or empty ("entry",
\* "changes", "value", "messages"), "message" for a first message that
\* lacks a key, "text" for one of an unknown shape, "none" for a well-formed
\* body, and "other" for a value of another kind on the path
RECURSIVE StepAt(_, _)
StepAt(x, path) ==
    IF path = <<>>
    THEN CASE ~IsDict(x)             -> "other"
           [] LacksReadKey(x)        -> "message"
           [] IsUnknownShape(x)      -> "text"
           [] IsWellFormedMessage(x) -> "none"
           [] OTHER                  -> "other"
    ELSE LET key == Head(path)
         IN  CASE key = "messages" /\ IsList(x) /\ Len(x.v) = 0 -> "messages"
               [] ~IsDict(x)    -> "other"
               [] ~Has(x, key)  -> key
               [] key = "value" -> StepAt(x.v[key], Tail(path))
               [] IsList(x.v[key]) /\ Len(x.v[key].v) = 0 -> key
               [] ~IsList(x.v[key]) -> "other"
               [] OTHER -> StepAt(x.v[key].v[1], Tail(path))

StepOf(data) == StepAt(data, <<"entry", "changes", "value", "messages">>)

FirstMessage(data) ==
    data.v.entry.v[1].v.changes.v[1].v.value.v.messages.v[1]

\* C4: a body in which entry, changes, value or messages is missing or an
\* empty array, or whose first message lacks a key the extraction reads,
\* ends in the ValueError: no KeyError or IndexError escapes, no message
\* is returned.
C4_MissingIsValueError ==
    (HookCalled /\ StepOf(hook.data) \in {"entry", "changes", "value", "messages", "message"})
        => IsValidationError(hook.outcome)

\* a first message lacked a key: the KeyError was caught and turned into
\* the ValueError
C4_Witness ==
    /\ HookCalled
    /\ StepOf(hook.data) = "message"
    /\ "from" \in DOMAIN FirstMessage(hook.data).v
    /\ IsValidationError(hook.outcome)
    /\ hook.outcome.cause = "KeyError"

\* C5: a well-formed body returns exactly {sender_id: from, text: T,
\* metadata: {}}, T being text.body, interactive.button_reply.id or
\* interactive.list_reply.id by the type of the first message.
C5_WellFormedReturns ==
    (HookCalled /\ StepOf(hook.data) = "none") =>
        LET m == FirstMessage(hook.data)
        IN  hook.outcome = Ok([sender_id |-> m.v.from,
                               text |-> TextOf(m),
                               metadata |-> EmptyDict])

\* a list reply was received and its id returned as the text
C5_Witness ==
    /\ HookCalled
    /\ StepOf(hook.data) = "none"
    /\ FirstMessage(hook.data).v.type = S("interactive")
    /\ hook.outcome.kind = "ok"
    /\ hook.outcome.value.text = S("OPT_B")
    /\ hook.outcome.value.sender_id = S("5491100000001")

\* C6: every call either fails with the ValueError or returns a message
\* whose text is set; a first message of an unknown type, or an interactive
\* one of an unknown interactive type, fails with the ValueError.
C6_ValueErrorOrMessage ==
    HookCalled =>
        /\ \/ IsValidationError(hook.outcome)
           \/ hook.outcome.kind = "ok" /\ hook.outcome.value.text # Null
        /\ StepOf(hook.data) = "text" => IsValidationError(hook.outcome)

\* the hook was called twice
HookCalledTwice == HookCalled /\ prev_hook.op = "get_message_from_whatsapp_hook"

NamedSteps == {"entry", "changes", "value", "messages", "message", "text"}

\* C9 as stated: a body whose entry array is missing or empty fails with
\* the description "invalid: missing entry", and two failures at different
\* steps carry different descriptions.
C9_DescriptionNamesStep ==
    /\ (HookCalled /\ StepOf(hook.data) = "entry") =>
           IsInvalidData(hook.outcome, "invalid: missing entry")
    /\ (/\ HookCalledTwice
        /\ StepOf(hook.data) \in NamedSteps
        /\ StepOf(prev_hook.data) \in NamedSteps
        /\ StepOf(hook.data) # StepOf(prev_hook.data)) =>
           hook.outcome.arg # prev_hook.outcome.arg

\* C9 amended: every ValueError carries one of two fixed descriptions:
\* "Provided value is invalid" when messages is missing or empty, and
\* "Provided data is invalid!" at every other step (entry, changes, value,
\* a missing key of the message, a text that was not determined).
C9_TwoDescriptions ==
    (HookCalled /\ IsValidationError(hook.outcome)) =>
        /\ hook.outcome.arg \in {"Provided data is invalid!", "Provided value is invalid"}
        /\ StepOf(hook.data) \in NamedSteps \ {"messages"} =>
               hook.outcome.arg = "Provided data is invalid!"
        /\ StepOf(hook.data) = "messages" =>
               hook.outcome.arg = "Provided value is invalid"

\* a body without entry and then a body without messages were received:
\* each failed, with the two descriptions
C9_Witness ==
    /\ HookCalledTwice
    /\ StepOf(prev_hook.data) = "entry"
    /\ IsInvalidData(prev_hook.outcome, "Provided data is invalid!")
    /\ StepOf(hook.data) = "messages"
    /\ IsInvalidData(hook.outcome, "Provided value is invalid")

\* x cut to what the call may read of it: under key k, F of what k holds
OnKey(x, k, F(_)) ==
    IF IsDict(x) /\ Has(x, k) THEN With(x, k, F(x.v[k])) ELSE x

\* a list cut to its first element, F applied to it
OnFirst(x, F(_)) ==
    IF IsList(x) /\ Len(x.v) > 0 THEN L(<<F(x.v[1])>>) ELSE x

Same(x) == x

\* the body without entry[1..], changes[1..] and messages[1..]
HeadOnly(data) ==
    OnKey(data, "entry", LAMBDA es :
        OnFirst(es, LAMBDA e :
            OnKey(e, "changes", LAMBDA cs :
                OnFirst(cs, LAMBDA c :
                    OnKey(c, "value", LAMBDA v :
                        OnKey(v, "messages", LAMBDA ms : OnFirst(ms, Same)))))))

\* C10: two bodies that agree on entry[0].changes[0].value.messages[0] and
\* on the rest of the path, and differ only in entry[1..], changes[1..] or
\* messages[1..], end the same way: the same message, or the same failure.
C10_OnlyFirstElements ==
    (HookCalledTwice /\ HeadOnly(prev_hook.data) = HeadOnly(hook.data)) =>
        prev_hook.outcome = hook.outcome

\* two bodies with the same first message and different further elements
\* gave the same message
C10_Witness ==
    /\ HookCalledTwice
    /\ HeadOnly(prev_hook.data) = HeadOnly(hook.data)
    /\ prev_hook.data # hook.data
    /\ Len(hook.data.v.entry.v) > 1
    /\ hook.outcome.kind = "ok"
    /\ prev_hook.outcome = hook.outcome

(***************************************************************************)
(* Properties of send_message.                                             *)
(***************************************************************************)
Sent == sent.op = "send_message"

Is2xx(code) == 200 <= code /\ code <= 299

\* C7 as stated: a timeout, a connection failure and a response with a
\* status that is not 2xx all end send_message in a failure; a value is
\* returned only after a 2xx response, and is the parsed body.
C7_Non2xxFails ==
    Sent =>
        /\ sent.net.kind = "raise" =>
               sent.outcome.kind = "raise" /\ sent.outcome.exc = sent.net.exc
        /\ (sent.net.kind = "response" /\ ~Is2xx(sent.net.status_code)) =>
               sent.outcome.kind = "raise"
        /\ sent.outcome.kind = "ok" =>
               /\ sent.net.kind = "response"
               /\ Is2xx(sent.net.status_code)
               /\ sent.outcome = ResponseJson(sent.net)

\* C7 amended: a timeout or a connection failure of the POST ends
\* send_message in that same failure; a response is never a failure by its
\* status: whatever the status code, send_message returns the parsed JSON
\* body as it is, and fails only if the body is not JSON.
C7_AnyStatusReturnsBody ==
    Sent =>
        /\ sent.net.kind = "raise" =>
               sent.outcome.kind = "raise" /\ sent.outcome.exc = sent.net.exc
        /\ sent.net.kind = "response" =>
               /\ sent.outcome = ResponseJson(sent.net)
               /\ sent.net.text \in {BodyAccepted, BodyError} => sent.outcome.kind = "ok"
               /\ sent.net.text \notin {BodyAccepted, BodyError} =>
                      sent.outcome.kind = "raise" /\ sent.outcome.exc = "JSONDecodeError"
        /\ sent.outcome.kind = "ok" => sent.net.kind = "response"

\* the API answered 401 with an error body, and send_message returned it
C7_Witness ==
    /\ Sent
    /\ sent.net.kind = "response"
    /\ sent.net.status_code = 401
    /\ sent.outcome.kind = "ok"
    /\ "error" \in DOMAIN sent.outcome.value.v

\* C8: every call of send_message issues exactly one POST, whether it
\* succeeds or fails: to https://graph.facebook.com/{version}{phone
\* identifier}/messages, with Authorization: Bearer {token}, the configured
\* timeout, and the JSON body prepare_message gives for the same arguments;
\* after any sequence of calls there are as many POSTs as calls.
C8_OnePostPerCall ==
    /\ Len(posts) = Len(calls)
    /\ \A i \in 1..Len(calls) :
           posts[i] =
               [method |-> "POST",
                url |-> "https://graph.facebook.com/" \o self._graphql_api_version
                            \o self._phone_identifier \o "/messages",
                headers |-> [Authorization |-> "Bearer " \o self._token],
                json |-> prepare_message(calls[i].to, calls[i].text, calls[i].buttons),
                timeout |-> self._api_timeout]

\* a call after another one, whose POST timed out: one POST each
C8_Witness ==
    /\ Sent
    /\ Len(calls) >= 2
    /\ Len(posts) = Len(calls)
    /\ sent.net.kind = "raise"
    /\ sent.outcome.kind = "raise"
    /\ calls[Len(calls)].buttons.t = "list"
    /\ posts[Len(posts)].json.type = "interactive"
=============================================================================
